---- MODULE Spec2Model ----
(***************************************************************************)
(* DataLock<T> of ruspiro-lock (src/src/datalock.rs): an exclusive access  *)
(* lock around an inline value, built on one atomic exchange of a boolean  *)
(* flag, and its guard TryDataLock, whose drop releases the lock.          *)
(*                                                                         *)
(* Every context (core) runs a client that calls try_lock, lock, fmt,      *)
(* dereferences a guard it holds, or drops it.  One action is one step     *)
(* that other contexts can observe: the SeqCst exchange, a barrier, the    *)
(* event signal, the wait for event, an access to the inline value.  The   *)
(* construction of the guard (line 91) touches no shared memory and is     *)
(* part of the step of the successful exchange; the guard stops being live *)
(* at the exchange of its drop (line 139), the first thing drop does.      *)
(* Both builds of the file are modelled: arm = TRUE is the build for       *)
(* target_arch arm/aarch64 (dmb, wfe, dsb+sev), arm = FALSE the build for  *)
(* every other target, where the cfg blocks are compiled out.              *)
(***************************************************************************)
EXTENDS Naturals, FiniteSets

\* ------------------------------------------------------------------ bounds
\* number of execution contexts (cores) sharing the one DataLock
NumCtx == 2
\* the guarded value is a u32; the model lets it range over 0..MaxVal
MaxVal == 1
Ctx == 1..NumCtx
Values == 0..MaxVal

VARIABLES
    arm,        \* the build: cfg(any(target_arch = "arm", target_arch = "aarch64"))
    locked,     \* DataLock.locked : AtomicBool
    data,       \* DataLock.data : UnsafeCell<T>
    pc,         \* where each context is
    inLock,     \* the context's try_lock was called by lock()
    guards,     \* number of live TryDataLock values each context owns
    res,        \* what the try_lock in progress returns: "Some", "None"
    seen,       \* the value last read from the inline slot (by any context)
    ev,         \* the event register of each core (wfe / sev)
    relVal,     \* history: the inline value when the lock was last free
    fresh,      \* history: no deref_mut since the last acquisition
    epochTries, \* history: exchanges of try_lock since the last release
    epochSome,  \* history: those of them that returned Some
    everDropped,\* history: some guard has been dropped
    spun,       \* history: this call of lock() had a failed attempt
    irqOff,     \* interrupt-safe path: disable hooks not yet re-enabled, per core
    inHandler   \* interrupt-safe path: an interrupt handler runs on the core

vars == <<arm, locked, data, pc, inLock, guards, res, seen, ev,
          relVal, fresh, epochTries, epochSome, everDropped, spun,
          irqOff, inHandler>>

\* the state of the local interrupts, which the code of the lock in
\* datalock.rs never touches
irq == <<irqOff, inHandler>>

hist == <<relVal, fresh, epochTries, epochSome, everDropped, spun>>

\* increment of a history counter, which tells 0, 1 and "2 or more" apart
Bump(n) == IF n < 2 THEN n + 1 ELSE n

\* ------------------------------------------------------------ construction
\* mutant: the flag is constructed set
new_locked(value) ==
    /\ locked = TRUE
    /\ data = value

\* DataLock::new(value): flag cleared, slot initialised
new(value) ==
    /\ locked = FALSE
    /\ data = value

Init ==
    /\ arm \in BOOLEAN
    /\ \E value \in Values : new(value) /\ relVal = value
    /\ pc = [c \in Ctx |-> "idle"]
    /\ inLock = [c \in Ctx |-> FALSE]
    /\ guards = [c \in Ctx |-> 0]
    /\ res = [c \in Ctx |-> "none"]
    /\ seen = 0
    /\ ev = [c \in Ctx |-> FALSE]
    /\ fresh = TRUE
    /\ epochTries = 0
    /\ epochSome = 0
    /\ everDropped = FALSE
    /\ spun = [c \in Ctx |-> FALSE]
    /\ irqOff = [c \in Ctx |-> 0]
    /\ inHandler = [c \in Ctx |-> FALSE]

\* ---------------------------------------------------------------- try_lock
\* a client calls try_lock (possibly while it holds the guard itself)
try_lock_call(c) ==
    /\ pc[c] = "idle"
    /\ pc' = [pc EXCEPT ![c] = "try_lock"]
    /\ inLock' = [inLock EXCEPT ![c] = FALSE]
    /\ UNCHANGED <<irq, arm, locked, data, guards, res, seen, ev, hist>>

\* mutant: the previous value of the flag is ignored
try_lock_result_always(prev) == "Some"

\* mutant: the negation of the previous value is lost
try_lock_result_inverted(prev) == IF prev THEN "Some" ELSE "None"

\* the result of try_lock from the previous value the exchange returned
try_lock_result(prev) == IF ~prev THEN "Some" ELSE "None"

\* mutant: load then store instead of one exchange, so the value tested may
\* be the one from before another context's store
try_lock_swap_stale(c) ==
    /\ pc[c] = "try_lock"
    /\ locked' = TRUE
    /\ \E prev \in {locked, FALSE} :
         /\ res' = [res EXCEPT ![c] = try_lock_result(prev)]
         /\ guards' = [guards EXCEPT ![c] =
                         IF try_lock_result(prev) = "Some" THEN @ + 1 ELSE @]
         /\ pc' = [pc EXCEPT ![c] =
                     IF try_lock_result(prev) = "Some" /\ arm
                     THEN "try_dmb" ELSE "try_ret"]
         /\ fresh' = IF try_lock_result(prev) = "Some" THEN TRUE ELSE fresh
         /\ epochSome' = IF try_lock_result(prev) = "Some"
                         THEN Bump(epochSome) ELSE epochSome
    /\ epochTries' = Bump(epochTries)
    /\ UNCHANGED <<irq, arm, data, inLock, seen, ev, relVal, everDropped, spun>>

\* mutant: a failed attempt puts the flag back to false
try_lock_swap_undo(c) ==
    /\ pc[c] = "try_lock"
    /\ locked' = ~locked
    /\ res' = [res EXCEPT ![c] = try_lock_result(locked)]
    /\ guards' = [guards EXCEPT ![c] =
                    IF try_lock_result(locked) = "Some" THEN @ + 1 ELSE @]
    /\ pc' = [pc EXCEPT ![c] =
                IF try_lock_result(locked) = "Some" /\ arm
                THEN "try_dmb" ELSE "try_ret"]
    /\ fresh' = IF try_lock_result(locked) = "Some" THEN TRUE ELSE fresh
    /\ epochTries' = Bump(epochTries)
    /\ epochSome' = IF try_lock_result(locked) = "Some"
                    THEN Bump(epochSome) ELSE epochSome
    /\ UNCHANGED <<irq, arm, data, inLock, seen, ev, relVal, everDropped, spun>>

\* mutant: try_lock spins like lock(): its exchange goes through only once
\* the flag is clear
try_lock_swap_blocking(c) ==
    /\ pc[c] = "try_lock"
    /\ ~locked
    /\ locked' = TRUE
    /\ res' = [res EXCEPT ![c] = "Some"]
    /\ guards' = [guards EXCEPT ![c] = @ + 1]
    /\ pc' = [pc EXCEPT ![c] = IF arm THEN "try_dmb" ELSE "try_ret"]
    /\ fresh' = TRUE
    /\ epochTries' = Bump(epochTries)
    /\ epochSome' = Bump(epochSome)
    /\ UNCHANGED <<irq, arm, data, inLock, seen, ev, relVal, everDropped, spun>>

\* self.locked.swap(true, SeqCst) and the branch on its result
try_lock_swap(c) ==
    /\ pc[c] = "try_lock"
    /\ locked' = TRUE
    /\ res' = [res EXCEPT ![c] = try_lock_result(locked)]
    /\ guards' = [guards EXCEPT ![c] =
                    IF try_lock_result(locked) = "Some" THEN @ + 1 ELSE @]
    /\ pc' = [pc EXCEPT ![c] =
                IF try_lock_result(locked) = "Some" /\ arm
                THEN "try_dmb" ELSE "try_ret"]
    /\ fresh' = IF try_lock_result(locked) = "Some" THEN TRUE ELSE fresh
    /\ epochTries' = Bump(epochTries)
    /\ epochSome' = IF try_lock_result(locked) = "Some"
                    THEN Bump(epochSome) ELSE epochSome
    /\ UNCHANGED <<irq, arm, data, inLock, seen, ev, relVal, everDropped, spun>>

\* llvm_asm!("dmb sy") after a successful exchange (arm build only)
try_lock_dmb(c) ==
    /\ pc[c] = "try_dmb"
    /\ pc' = [pc EXCEPT ![c] = "try_ret"]
    /\ UNCHANGED <<irq, arm, locked, data, inLock, guards, res, seen, ev, hist>>

\* try_lock returns to a client
try_lock_return(c) ==
    /\ pc[c] = "try_ret"
    /\ ~inLock[c]
    /\ pc' = [pc EXCEPT ![c] = "idle"]
    /\ res' = [res EXCEPT ![c] = "none"]
    /\ UNCHANGED <<irq, arm, locked, data, inLock, guards, seen, ev, hist>>

\* -------------------------------------------------------------------- lock
\* a client calls lock(): the loop's first try_lock
lock_call(c) ==
    /\ pc[c] = "idle"
    /\ pc' = [pc EXCEPT ![c] = "try_lock"]
    /\ inLock' = [inLock EXCEPT ![c] = TRUE]
    /\ UNCHANGED <<irq, arm, locked, data, guards, res, seen, ev, hist>>

\* mutant: lock() returns a guard after its first attempt, whatever it was
lock_return_eager(c) ==
    /\ pc[c] = "try_ret"
    /\ inLock[c]
    /\ res[c] \in {"Some", "None"}
    /\ guards' = [guards EXCEPT ![c] = IF res[c] = "Some" THEN @ ELSE @ + 1]
    /\ pc' = [pc EXCEPT ![c] = "idle"]
    /\ inLock' = [inLock EXCEPT ![c] = FALSE]
    /\ res' = [res EXCEPT ![c] = "none"]
    /\ spun' = [spun EXCEPT ![c] = FALSE]
    /\ UNCHANGED <<irq, arm, locked, data, seen, ev,
                   relVal, fresh, epochTries, epochSome, everDropped>>

\* if let Some(data) = self.try_lock() { return data; }
lock_return(c) ==
    /\ pc[c] = "try_ret"
    /\ inLock[c]
    /\ res[c] = "Some"
    /\ pc' = [pc EXCEPT ![c] = "idle"]
    /\ inLock' = [inLock EXCEPT ![c] = FALSE]
    /\ res' = [res EXCEPT ![c] = "none"]
    /\ spun' = [spun EXCEPT ![c] = FALSE]
    /\ UNCHANGED <<irq, arm, locked, data, guards, seen, ev,
                   relVal, fresh, epochTries, epochSome, everDropped>>

\* try_lock returned None: wait for an event (arm) or loop at once
lock_retry(c) ==
    /\ pc[c] = "try_ret"
    /\ inLock[c]
    /\ res[c] = "None"
    /\ pc' = [pc EXCEPT ![c] = IF arm THEN "wfe" ELSE "try_lock"]
    /\ res' = [res EXCEPT ![c] = "none"]
    /\ spun' = [spun EXCEPT ![c] = TRUE]
    /\ UNCHANGED <<irq, arm, locked, data, inLock, guards, seen, ev,
                   relVal, fresh, epochTries, epochSome, everDropped>>

\* mutant: the event is taken for the lock: after the wait lock() leaves
\* its loop with a guard, without another try_lock
lock_wfe_giveup(c) ==
    /\ pc[c] = "wfe"
    /\ ev[c]
    /\ ev' = [ev EXCEPT ![c] = FALSE]
    /\ pc' = [pc EXCEPT ![c] = "idle"]
    /\ inLock' = [inLock EXCEPT ![c] = FALSE]
    /\ guards' = [guards EXCEPT ![c] = @ + 1]
    /\ UNCHANGED <<irq, arm, locked, data, res, seen, hist>>

\* llvm_asm!("wfe") with the event register set: clears it and goes on
lock_wfe(c) ==
    /\ pc[c] = "wfe"
    /\ ev[c]
    /\ ev' = [ev EXCEPT ![c] = FALSE]
    /\ pc' = [pc EXCEPT ![c] = "try_lock"]
    /\ UNCHANGED <<irq, arm, locked, data, inLock, guards, res, seen, hist>>

\* llvm_asm!("wfe") ended by an interrupt or another wake-up event
lock_wfe_interrupt(c) ==
    /\ pc[c] = "wfe"
    /\ ~ev[c]
    /\ pc' = [pc EXCEPT ![c] = "try_lock"]
    /\ UNCHANGED <<irq, arm, locked, data, inLock, guards, res, seen, ev, hist>>

\* -------------------------------------------------------------------- drop
\* mutant: drop exchanges in true instead of false, the flag stays set
drop_swap_stuck(c) ==
    /\ pc[c] = "idle"
    /\ guards[c] > 0
    /\ locked' = TRUE
    /\ guards' = [guards EXCEPT ![c] = @ - 1]
    /\ pc' = [pc EXCEPT ![c] = IF arm THEN "drop_dmb" ELSE "idle"]
    /\ relVal' = data
    /\ epochTries' = 0
    /\ epochSome' = 0
    /\ everDropped' = TRUE
    /\ UNCHANGED <<irq, arm, data, inLock, res, seen, ev, fresh, spun>>

\* the guard goes out of scope: self._data.locked.swap(false, SeqCst)
drop_swap(c) ==
    /\ pc[c] = "idle"
    /\ guards[c] > 0
    /\ locked' = FALSE
    /\ guards' = [guards EXCEPT ![c] = @ - 1]
    /\ pc' = [pc EXCEPT ![c] = IF arm THEN "drop_dmb" ELSE "idle"]
    /\ relVal' = data
    /\ epochTries' = 0
    /\ epochSome' = 0
    /\ everDropped' = TRUE
    /\ UNCHANGED <<irq, arm, data, inLock, res, seen, ev, fresh, spun>>

\* llvm_asm!("dmb sy") of drop (arm build only)
drop_dmb(c) ==
    /\ pc[c] = "drop_dmb"
    /\ pc' = [pc EXCEPT ![c] = "drop_sev"]
    /\ UNCHANGED <<irq, arm, locked, data, inLock, guards, res, seen, ev, hist>>

\* mutant: drop ends without the event signal
drop_sev_silent(c) ==
    /\ pc[c] = "drop_sev"
    /\ pc' = [pc EXCEPT ![c] = "idle"]
    /\ UNCHANGED <<irq, arm, locked, data, inLock, guards, res, seen, ev, hist>>

\* mutant: sevl instead of sev, the event reaches the signalling core only
drop_sev_local(c) ==
    /\ pc[c] = "drop_sev"
    /\ ev' = [ev EXCEPT ![c] = TRUE]
    /\ pc' = [pc EXCEPT ![c] = "idle"]
    /\ UNCHANGED <<irq, arm, locked, data, inLock, guards, res, seen, hist>>

\* llvm_asm!("dsb sy; sev"): the event is signalled to every core
drop_sev(c) ==
    /\ pc[c] = "drop_sev"
    /\ ev' = [d \in Ctx |-> TRUE]
    /\ pc' = [pc EXCEPT ![c] = "idle"]
    /\ UNCHANGED <<irq, arm, locked, data, inLock, guards, res, seen, hist>>

\* ------------------------------------------------------- access to the value
\* Deref for TryDataLock: read through a guard the context holds
deref(c) ==
    /\ pc[c] = "idle"
    /\ guards[c] > 0
    /\ seen' = data
    /\ UNCHANGED <<irq, arm, locked, data, pc, inLock, guards, res, ev, hist>>

\* DerefMut for TryDataLock: write through a guard the context holds
deref_mut(c, v) ==
    /\ pc[c] = "idle"
    /\ guards[c] > 0
    /\ data' = v
    /\ fresh' = FALSE
    /\ UNCHANGED <<irq, arm, locked, pc, inLock, guards, res, seen, ev,
                   relVal, epochTries, epochSome, everDropped, spun>>

\* another context holds a live guard (and with it a &mut T to the slot)
OtherHolds(c) == \E d \in Ctx \ {c} : guards[d] > 0

\* Debug for DataLock: fmt is entered; it takes no lock
fmt_call(c) ==
    /\ pc[c] = "idle"
    /\ pc' = [pc EXCEPT ![c] = "fmt"]
    /\ UNCHANGED <<irq, arm, locked, data, inLock, guards, res, seen, ev, hist>>

\* fmt reads unsafe { &*self.data.get() }: a data race with the holder's
\* writes, so the value read is any value when another context holds a guard
fmt(c) ==
    /\ pc[c] = "fmt"
    /\ \E v \in Values :
         /\ (~OtherHolds(c) => v = data)
         /\ seen' = v
    /\ pc' = [pc EXCEPT ![c] = "idle"]
    /\ UNCHANGED <<irq, arm, locked, data, inLock, guards, res, ev, hist>>

\* ------------------------------------------------------------ specification
Next ==
    \E c \in Ctx :
        \/ try_lock_call(c)
        \/ try_lock_swap(c)
        \/ try_lock_dmb(c)
        \/ try_lock_return(c)
        \/ lock_call(c)
        \/ lock_return(c)
        \/ lock_retry(c)
        \/ lock_wfe(c)
        \/ lock_wfe_interrupt(c)
        \/ drop_swap(c)
        \/ drop_dmb(c)
        \/ drop_sev(c)
        \/ deref(c)
        \/ \E v \in Values : deref_mut(c, v)
        \/ fmt_call(c)
        \/ fmt(c)

Spec == Init /\ [][Next]_vars

\* ------------------------------------------------- specification, scheduled
\* the steps the code of the lock takes once a call has been made, and the
\* drop of a guard at the end of its scope
CodeStep(c) ==
    \/ try_lock_swap(c)
    \/ try_lock_dmb(c)
    \/ try_lock_return(c)
    \/ lock_return(c)
    \/ lock_retry(c)
    \/ lock_wfe(c)
    \/ drop_swap(c)
    \/ drop_dmb(c)
    \/ drop_sev(c)
    \/ fmt(c)

\* clients that call try_lock, lock and fmt only while they hold no guard:
\* the scope of a guard holds reads and writes of the value, then ends
FairNext ==
    \E c \in Ctx :
        \/ guards[c] = 0 /\ try_lock_call(c)
        \/ guards[c] = 0 /\ lock_call(c)
        \/ CodeStep(c)
        \/ lock_wfe_interrupt(c)
        \/ deref(c)
        \/ \E v \in Values : deref_mut(c, v)
        \/ guards[c] = 0 /\ fmt_call(c)

\* every core keeps executing (weak fairness of each context's code), and
\* every guard's scope ends; clients need not call, interrupts need not come
FairSpec == Init /\ [][FairNext]_vars /\ \A c \in Ctx : WF_vars(CodeStep(c))

\* ------------------------------------------ interrupt-safe acquisition
\* (the revision of the lock with the interrupt wrapper is not in
\* datalock.rs; these steps follow the design text: disable hook, one
\* attempt, re-enable hook)
\* the caller-supplied hook "disable local interrupts", then the attempt
irq_disable(c) ==
    /\ pc[c] = "idle"
    /\ ~inHandler[c]
    /\ irqOff' = [irqOff EXCEPT ![c] = @ + 1]
    /\ pc' = [pc EXCEPT ![c] = "try_lock"]
    /\ inLock' = [inLock EXCEPT ![c] = FALSE]
    /\ UNCHANGED <<inHandler, arm, locked, data, guards, res, seen, ev, hist>>

\* mutant: the failure path returns without the re-enable hook
irq_enable_on_success(c) ==
    /\ pc[c] = "try_ret"
    /\ irqOff' = [irqOff EXCEPT ![c] = IF res[c] = "Some" THEN @ - 1 ELSE @]
    /\ pc' = [pc EXCEPT ![c] = "idle"]
    /\ res' = [res EXCEPT ![c] = "none"]
    /\ UNCHANGED <<inHandler, arm, locked, data, inLock, guards, seen, ev, hist>>

\* the attempt is over, with Some or None: the hook "re-enable local
\* interrupts", and the result goes to the caller
irq_enable(c) ==
    /\ pc[c] = "try_ret"
    /\ irqOff' = [irqOff EXCEPT ![c] = @ - 1]
    /\ pc' = [pc EXCEPT ![c] = "idle"]
    /\ res' = [res EXCEPT ![c] = "none"]
    /\ UNCHANGED <<inHandler, arm, locked, data, inLock, guards, seen, ev, hist>>

\* an interrupt is taken on core c: only while its interrupts are enabled
irq_handler_enter(c) ==
    /\ irqOff[c] = 0
    /\ ~inHandler[c]
    /\ inHandler' = [inHandler EXCEPT ![c] = TRUE]
    /\ UNCHANGED <<irqOff, arm, locked, data, pc, inLock, guards, res, seen,
                   ev, hist>>

\* the handler returns to the interrupted code
irq_handler_exit(c) ==
    /\ inHandler[c]
    /\ inHandler' = [inHandler EXCEPT ![c] = FALSE]
    /\ UNCHANGED <<irqOff, arm, locked, data, pc, inLock, guards, res, seen,
                   ev, hist>>

\* clients that acquire through the interrupt-safe path only; the code of a
\* core does not run while a handler runs on it
IrqNext ==
    \E c \in Ctx :
        \/ irq_handler_enter(c)
        \/ irq_handler_exit(c)
        \/ ~inHandler[c] /\ irq_disable(c)
        \/ ~inHandler[c] /\ try_lock_swap(c)
        \/ ~inHandler[c] /\ try_lock_dmb(c)
        \/ ~inHandler[c] /\ irq_enable(c)
        \/ ~inHandler[c] /\ drop_swap(c)
        \/ ~inHandler[c] /\ drop_dmb(c)
        \/ ~inHandler[c] /\ drop_sev(c)
        \/ ~inHandler[c] /\ deref(c)
        \/ ~inHandler[c] /\ \E v \in Values : deref_mut(c, v)

IrqSpec == Init /\ [][IrqNext]_vars

\* ------------------------------------------------- the two builds compared
\* the steps of one context, as in Next
Step(c) ==
    \/ try_lock_call(c)
    \/ try_lock_swap(c)
    \/ try_lock_dmb(c)
    \/ try_lock_return(c)
    \/ lock_call(c)
    \/ lock_return(c)
    \/ lock_retry(c)
    \/ lock_wfe(c)
    \/ lock_wfe_interrupt(c)
    \/ drop_swap(c)
    \/ drop_dmb(c)
    \/ drop_sev(c)
    \/ deref(c)
    \/ \E v \in Values : deref_mut(c, v)
    \/ fmt_call(c)
    \/ fmt(c)

\* the places of the arm build that the build for other targets does not
\* have: the cfg(target_arch) blocks
Quiet(c) == pc[c] \in {"try_dmb", "wfe", "drop_dmb", "drop_sev"}

\* the steps of the cfg(target_arch) blocks
QuietStep(c) ==
    \/ try_lock_dmb(c)
    \/ lock_wfe(c)
    \/ lock_wfe_interrupt(c)
    \/ drop_dmb(c)
    \/ drop_sev(c)

\* where the build without the cfg blocks is, when the arm build is at p
PcSpin(p) ==
    CASE p = "try_dmb" -> "try_ret"
      [] p = "wfe" -> "try_lock"
      [] p \in {"drop_dmb", "drop_sev"} -> "idle"
      [] OTHER -> p

\* what the two builds have in common: flag, value, guards, calls in
\* progress and their results, the value last read
Abs ==
    [locked |-> locked, data |-> data, guards |-> guards, seen |-> seen,
     inLock |-> inLock, res |-> res,
     pc |-> [c \in Ctx |-> PcSpin(pc[c])]]

\* the file with the cfg(target_arch) blocks compiled out, lock() a plain
\* spin over try_lock: the states that one step of context c leads to
\* from the state a
spin_steps(a, c) ==
    LET idle == a.pc[c] = "idle"
        holds == idle /\ a.guards[c] > 0
        some == try_lock_result(a.locked) = "Some"
        others == \E d \in Ctx \ {c} : a.guards[d] > 0
    IN  {[a EXCEPT !.pc[c] = "try_lock", !.inLock[c] = b] :
             b \in {x \in BOOLEAN : idle}}
        \cup {[a EXCEPT !.pc[c] = "fmt"] : x \in {y \in {0} : idle}}
        \cup {[a EXCEPT !.seen = a.data] : x \in {y \in {0} : holds}}
        \cup {[a EXCEPT !.data = v] : v \in {x \in Values : holds}}
        \cup {[a EXCEPT !.locked = FALSE, !.guards[c] = @ - 1] :
                  x \in {y \in {0} : holds}}
        \cup {[a EXCEPT !.locked = TRUE,
                        !.res[c] = try_lock_result(a.locked),
                        !.guards[c] = IF some THEN @ + 1 ELSE @,
                        !.pc[c] = "try_ret"] :
                  x \in {y \in {0} : a.pc[c] = "try_lock"}}
        \cup {[a EXCEPT !.pc[c] = "idle", !.res[c] = "none"] :
                  x \in {y \in {0} : a.pc[c] = "try_ret" /\ ~a.inLock[c]}}
        \cup {[a EXCEPT !.pc[c] = "idle", !.res[c] = "none",
                        !.inLock[c] = FALSE] :
                  x \in {y \in {0} : /\ a.pc[c] = "try_ret" /\ a.inLock[c]
                                      /\ a.res[c] = "Some"}}
        \cup {[a EXCEPT !.pc[c] = "try_lock", !.res[c] = "none"] :
                  x \in {y \in {0} : /\ a.pc[c] = "try_ret" /\ a.inLock[c]
                                      /\ a.res[c] = "None"}}
        \cup {[a EXCEPT !.pc[c] = "idle", !.seen = v] :
                  v \in {x \in Values :
                            a.pc[c] = "fmt" /\ (~others => x = a.data)}}

\* ------------------------------------------------------------------ guards
RECURSIVE SumGuards(_)
\* the live guards of the contexts in S, counted
SumGuards(S) ==
    IF S = {} THEN 0
    ELSE LET c == CHOOSE x \in S : TRUE
         IN  guards[c] + SumGuards(S \ {c})

\* the number of live TryDataLock values of the lock
GuardCount == SumGuards(Ctx)

\* context c leaves the exchange of try_lock in this step
Exchanges(c) == pc[c] = "try_lock" /\ pc'[c] # "try_lock"

\* ------------------------------------------------------------------ claims
\* C1: mutual exclusion: in every reachable state at most one live guard
\* (TryDataLock) exists for the lock, whatever the interleaving of try_lock,
\* lock and drops.
C1_MutualExclusion == GuardCount <= 1

\* C1 witness: one context holds the guard while another one's try_lock
\* has failed on it.
C1_Witness ==
    \E c \in Ctx : \E d \in Ctx \ {c} :
        guards[c] = 1 /\ pc[d] = "try_ret" /\ res[d] = "None"

\* C2: the flag locked is true if and only if exactly one live guard
\* exists: no forgotten release, no guard with the flag cleared.
C2_FlagIffGuard == locked <=> (GuardCount = 1)

\* C2 witness: the lock is held again after a guard was dropped, and the
\* flag is set.
C2_Witness == locked /\ GuardCount = 1 /\ everDropped

\* C3 (as claimed): no context is reading the inline value in fmt while
\* another context holds the live guard.
C3_NoUnguardedAccess == \A c \in Ctx : pc[c] = "fmt" => ~OtherHolds(c)

\* C4: of the try_lock exchanges with no guard drop between them at most
\* one returns Some, and as the lock is free after a drop (and after new),
\* of two such exchanges exactly one returns Some.
C4_OneOfTwoSucceeds ==
    /\ epochSome <= 1
    /\ epochTries >= 2 => epochSome = 1

\* C4 witness: two clients are in try_lock at once, both past their
\* exchange, one with Some and one with None.
C4_Witness ==
    \E c \in Ctx : \E d \in Ctx \ {c} :
        /\ ~inLock[c] /\ ~inLock[d]
        /\ pc[c] \in {"try_dmb", "try_ret"} /\ res[c] = "Some"
        /\ pc[d] = "try_ret" /\ res[d] = "None"
        /\ epochTries = 2

\* C5: while a guard is alive every try_lock exchange, by another context
\* or nested in the holder, returns None.
C5_HeldMeansNone ==
    [][\A c \in Ctx : (GuardCount >= 1 /\ Exchanges(c)) => res'[c] = "None"]_vars

\* C5 witness: the holder's own nested try_lock has returned None.
C5_Witness ==
    \E c \in Ctx :
        guards[c] = 1 /\ ~inLock[c] /\ pc[c] = "try_ret" /\ res[c] = "None"

\* C6: after a guard is dropped, the next try_lock exchange returns Some
\* if no context has acquired the lock since the drop.
C6_FreeAfterDrop ==
    [][\A c \in Ctx :
         (everDropped /\ epochSome = 0 /\ Exchanges(c)) => res'[c] = "Some"]_vars

\* C6 witness: the first exchange after a drop has returned Some.
C6_Witness ==
    \E c \in Ctx :
        /\ everDropped /\ epochTries = 1
        /\ pc[c] \in {"try_dmb", "try_ret"} /\ res[c] = "Some"

\* C7: a read through a guard with no write since it was acquired yields
\* the value the slot had when the lock was last free (the last value
\* written under the previous guard, or the value given to new), and the
\* inline value does not change while no guard is alive.
C7_ReadAfterWrite ==
    [][/\ \A c \in Ctx : (fresh /\ deref(c)) => seen' = relVal
       /\ GuardCount = 0 => data' = data]_vars

\* C7 witness: after a release, the next holder has read the released
\* value 1 and has not written yet.
C7_Witness ==
    /\ everDropped /\ fresh /\ GuardCount = 1
    /\ relVal = 1 /\ seen = 1 /\ data = 1

\* C8: lock() returns only after a successful try_lock, never while
\* another context holds the guard, and the guard it returns sees the value
\* the last holder left.
C8_LockReturns ==
    [][\A c \in Ctx :
         (inLock[c] /\ ~inLock'[c]) =>
            /\ res[c] = "Some"
            /\ guards'[c] = 1
            /\ \A d \in Ctx \ {c} : guards[d] = 0 /\ guards'[d] = 0
            /\ data' = relVal]_vars

\* C8 witness: a lock() that had to retry has returned with the guard
\* after the holder's drop.
C8_Witness ==
    \E c \in Ctx :
        /\ inLock[c] /\ spun[c] /\ pc[c] = "try_ret" /\ res[c] = "Some"
        /\ everDropped /\ guards[c] = 1

\* another context than c has just acquired the lock
OtherAcquired(c) == \E d \in Ctx \ {c} : res[d] = "Some"

\* lock() has returned its guard to context c
Returned(c) == ~inLock[c] /\ guards[c] = 1

\* C9 (as claimed): under weak fairness, with every guard dropped in the
\* end, every call of lock() returns a guard in the end.
C9_LockEventuallyReturns == \A c \in Ctx : inLock[c] ~> Returned(c)

\* C9 (amended): under the same fairness every call of lock() returns a
\* guard in the end unless the other contexts acquire the lock again and
\* again without end.
C9_ReturnsUnlessOvertaken ==
    \A c \in Ctx : ([]<>OtherAcquired(c)) \/ (inLock[c] ~> Returned(c))

\* C9 witness: on the arm build a lock() that failed once and went through
\* the wait for event has now won the exchange.
C9_Witness ==
    \E c \in Ctx :
        /\ arm /\ inLock[c] /\ spun[c]
        /\ pc[c] = "try_dmb" /\ res[c] = "Some" /\ guards[c] = 1

\* C10: a failed try_lock changes nothing: it returns None, the flag stays
\* true, the value, the guards and the event registers stay as they were.
C10_FailedIsNoOp ==
    [][\A c \in Ctx :
         (locked /\ Exchanges(c)) =>
            /\ res'[c] = "None"
            /\ locked'
            /\ UNCHANGED <<data, guards, seen, ev>>]_vars

\* C10 witness: a client's try_lock has failed, the flag is still set and
\* the holder still has its guard.
C10_Witness ==
    \E c \in Ctx : \E d \in Ctx \ {c} :
        /\ ~inLock[c] /\ pc[c] = "try_ret" /\ res[c] = "None"
        /\ locked /\ guards[d] = 1 /\ guards[c] = 0

\* context c is inside a try_lock that a client called
InTryLock(c) == ~inLock[c] /\ pc[c] \in {"try_lock", "try_dmb", "try_ret"}

\* the next step of try_lock in context c
TryLockStep(c) == try_lock_swap(c) \/ try_lock_dmb(c) \/ try_lock_return(c)

\* C11: contention is the only failure of try_lock: its exchange returns
\* None exactly when a guard is live at that instant and Some otherwise,
\* and a try_lock in progress can always take its next step, whatever the
\* other contexts do.
C11_OnlyContentionFails ==
    [][\A c \in Ctx :
         /\ Exchanges(c) => (res'[c] = "None" <=> GuardCount >= 1)
         /\ InTryLock(c) => ENABLED TryLockStep(c)]_vars

\* C11 witness: a client's try_lock on a lock that was released before has
\* returned Some while no other context holds or attempts anything.
C11_Witness ==
    \E c \in Ctx :
        /\ ~inLock[c] /\ pc[c] = "try_ret" /\ res[c] = "Some" /\ everDropped
        /\ \A d \in Ctx \ {c} : pc[d] = "idle" /\ guards[d] = 0

\* C12 (as claimed): the fence of drop comes before the flag is cleared:
\* while a drop has not executed its dmb yet, the flag is still set and no
\* other context has obtained a guard.
C12_FenceBeforeClear ==
    \A c \in Ctx :
        pc[c] = "drop_dmb" => (locked /\ \A d \in Ctx \ {c} : guards[d] = 0)

\* context c is in the wait for event of lock(), or about to enter it
\* after a failed attempt
Waiting(c) ==
    \/ pc[c] = "wfe"
    \/ arm /\ inLock[c] /\ pc[c] = "try_ret" /\ res[c] = "None"

\* a drop has cleared the flag and has its event signal still to issue
SignalPending == \E d \in Ctx : pc[d] \in {"drop_dmb", "drop_sev"}

\* C13: no lost wake-up: drop signals the event after it has cleared the
\* flag; a context that waits, or is about to wait, while the lock is free
\* has the event in its register or a signal still to come; and under fair
\* scheduling no context stays in the wait for event for ever.
C13_NoLostWakeup ==
    /\ [](\A c \in Ctx :
            /\ pc[c] \in {"drop_dmb", "drop_sev"} => guards[c] = 0 /\ everDropped
            /\ (Waiting(c) /\ ~locked) => (ev[c] \/ SignalPending))
    /\ \A c \in Ctx : (pc[c] = "wfe") ~> (pc[c] # "wfe")

\* C13 witness: the signal of the drop came between the waiter's failed
\* attempt and its wfe: the waiter is at wfe with the event set and the
\* lock free.
C13_Witness ==
    \E c \in Ctx :
        pc[c] = "wfe" /\ ev[c] /\ ~locked /\ ~SignalPending /\ spun[c]

\* no operation has touched the flag since new
Untouched == ~everDropped /\ epochTries = 0

\* C15: a new lock is unlocked and holds the value given to new: until the
\* first exchange the flag is clear and the slot holds that value, the first
\* exchange returns Some, and a read through that first guard before any
\* write yields the value.
C15_NewIsUnlocked ==
    [][/\ Untouched => (~locked /\ data = relVal /\ GuardCount = 0)
       /\ \A c \in Ctx :
            /\ (Untouched /\ Exchanges(c)) =>
                   (res'[c] = "Some" /\ guards'[c] = 1 /\ data' = relVal)
            /\ (~everDropped /\ fresh /\ deref(c)) => seen' = relVal]_vars

\* C15 witness: the first guard of a lock made with new(1) has read 1.
C15_Witness ==
    \E c \in Ctx :
        /\ ~everDropped /\ epochTries = 1 /\ fresh
        /\ guards[c] = 1 /\ pc[c] = "idle" /\ relVal = 1 /\ seen = 1

\* C17: global progress: with clients that drop the guards they obtain,
\* under weak fairness, whenever the lock is free and some context is
\* inside lock(), some context acquires the lock in the end, and the
\* contexts are never all in the wait for event.
C17_GlobalProgress ==
    /\ (~locked /\ \E c \in Ctx : inLock[c]) ~> (GuardCount >= 1)
    /\ [](\E c \in Ctx : pc[c] # "wfe")

\* C17 witness: the lock is free and a context whose attempt failed before
\* is in lock(), about to try again.
C17_Witness ==
    \E c \in Ctx :
        inLock[c] /\ spun[c] /\ pc[c] = "try_lock" /\ ~locked /\ GuardCount = 0

\* context c is in a lock() that it called while holding the guard itself
NestedLock(c) == inLock[c] /\ guards[c] >= 1 /\ res[c] # "Some"

\* C18: the lock is not re-entrant: a context that calls lock() while it
\* holds the live guard itself stays in that call for ever, and the guard
\* is never dropped.
C18_NotReentrant == [][\A c \in Ctx : NestedLock(c) => NestedLock(c)']_vars

\* C18 witness: the holder's own lock() has failed an attempt and is
\* retrying.
C18_Witness == \E c \in Ctx : NestedLock(c) /\ spun[c] /\ pc[c] = "try_lock"

\* C19: release is performed only by the owner: the flag goes from true to
\* false only in the drop of the one live guard, by the context that holds
\* it, and every drop of a guard finds the flag true and clears it.
C19_OwnerReleases ==
    [][/\ (locked /\ ~locked') =>
             \E c \in Ctx :
                 /\ pc[c] = "idle" /\ guards[c] = 1 /\ guards'[c] = 0
                 /\ \A d \in Ctx \ {c} : guards[d] = 0
       /\ \A c \in Ctx : guards'[c] < guards[c] => (locked /\ ~locked')
       /\ ~locked => ~(\E c \in Ctx : guards'[c] < guards[c])]_vars

\* C19 witness: a guard under which the value was written has cleared the
\* flag in its drop (arm build, before the barrier of drop), and no
\* exchange has happened since.
C19_Witness ==
    \E c \in Ctx :
        /\ pc[c] = "drop_dmb" /\ guards[c] = 0 /\ ~locked
        /\ epochTries = 0 /\ GuardCount = 0 /\ ~fresh

\* C16: interrupt-safe acquisition: the disable hook has run before each
\* attempt and the re-enable hook runs after it, with Some and with None
\* alike: the interrupts of a core are off exactly while it is in an
\* attempt, at most one disable is outstanding, and no handler runs on a
\* core whose attempt is in progress.
C16_IrqBracketsAttempt ==
    \A c \in Ctx :
        /\ irqOff[c] <= 1
        /\ irqOff[c] = 1 <=> pc[c] \in {"try_lock", "try_dmb", "try_ret"}
        /\ inHandler[c] => irqOff[c] = 0

\* C16 witness: an attempt has failed with the interrupts of its core still
\* off, while a handler runs on another core and the holder's core has its
\* interrupts on again.
C16_Witness ==
    \E c \in Ctx : \E d \in Ctx \ {c} :
        /\ pc[c] = "try_ret" /\ res[c] = "None" /\ irqOff[c] = 1
        /\ guards[d] = 1 /\ irqOff[d] = 0 /\ inHandler[d]

\* C14: the low-power wait is only an optimization.  Both builds take the
\* same steps on flag, value, guards, calls and results: each step of the
\* arm build is a step of the plain spin build or one of a cfg block that
\* changes none of these, and the arm build can follow each step of the
\* spin build, after at most the cfg blocks it is in, which are always able
\* to go on.
C14_WaitIsOptimization ==
    [][/\ Abs' = Abs \/ \E c \in Ctx : Abs' \in spin_steps(Abs, c)
       /\ \A c \in Ctx :
            /\ Quiet(c) => ENABLED (QuietStep(c) /\ Abs' = Abs)
            /\ (Quiet(c) /\ pc'[c] # pc[c]) =>
                   (~Quiet(c)' \/ (pc[c] = "drop_dmb" /\ pc'[c] = "drop_sev"))
            /\ ~Quiet(c) =>
                   \A t \in spin_steps(Abs, c) : ENABLED (Step(c) /\ Abs' = t)]_vars

\* C14 witness: on the arm build a context is in the wait for event, with
\* no event, while another context holds the guard: where the spin build
\* is about to try again.
C14_Witness ==
    \E c \in Ctx : \E d \in Ctx \ {c} :
        /\ arm /\ pc[c] = "wfe" /\ ~ev[c] /\ locked
        /\ pc[d] = "idle" /\ guards[d] = 1

====
